---- MODULE Spec2Model ----
(***************************************************************************)
(* Bencode decoder of MyTorrents (src/src/bencode.cpp) as a state machine. *)
(* A byte is its unsigned code (0..255); a buffer is a sequence of bytes.  *)
(* Positions are 0-based as in the code: At(input, p) is input[p].         *)
(* size_t and int64_t are modelled at SizeBits and IntBits bits.           *)
(***************************************************************************)
EXTENDS Integers, Sequences, FiniteSets, TLC

(* ---------------------------------------------------------------- bounds *)
SizeBits == 5
IntBits == 6
MaxDigits == 2
MaxStr == 2
MaxRun == 11
MaxItems == 3
MaxPairs == 2
MaxElems == 2

SizeMod == 2 ^ SizeBits
IntMod == 2 ^ IntBits
IntMin == 0 - 2 ^ (IntBits - 1)
IntMax == 2 ^ (IntBits - 1) - 1
MaxSize == SizeMod - 1
MaxWork == SizeMod

(* ------------------------------------------- bytes the grammar refers to *)
ChI == 105
ChL == 108
ChD == 100
ChE == 101
ChColon == 58
ChMinus == 45
Ch0 == 48
Ch9 == 57

Digits == Ch0 .. Ch9

(* size_t arithmetic: unsigned, modulo 2^SizeBits *)
WrapSize(x) == x % SizeMod

(* int64_t arithmetic at IntBits bits, two's complement wrap-around *)
WrapInt(x) == ((x + 2 ^ (IntBits - 1)) % IntMod) - 2 ^ (IntBits - 1)

At(input, p) == input[p + 1]

Size(input) == Len(input)

isdigitWide(c) == c >= Ch0 /\ c <= Ch9 + 1

isdigit(c) == c >= Ch0 /\ c <= Ch9

(* -------------------------------------------------------------- values *)
IntValue(i) == [type |-> "int", v |-> i]

StringValue(s) == [type |-> "str", v |-> s]

ListValue(l) == [type |-> "list", v |-> l]

DictValue(d) == [type |-> "dict", v |-> d]

NoValue == [type |-> "none", v |-> <<>>]

isInt(x) == x.type = "int"

isString(x) == x.type = "str"

isList(x) == x.type = "list"

isDict(x) == x.type = "dict"

BadVariantAccess == [ok |-> FALSE, what |-> "bad_variant_access", v |-> <<>>]

getIntNoCheck(x) == [ok |-> TRUE, what |-> "int", v |-> x.v]

getInt(x) == IF isInt(x) THEN [ok |-> TRUE, what |-> "int", v |-> x.v] ELSE BadVariantAccess

getString(x) == IF isString(x) THEN [ok |-> TRUE, what |-> "str", v |-> x.v] ELSE BadVariantAccess

getList(x) == IF isList(x) THEN [ok |-> TRUE, what |-> "list", v |-> x.v] ELSE BadVariantAccess

getDict(x) == IF isDict(x) THEN [ok |-> TRUE, what |-> "dict", v |-> x.v] ELSE BadVariantAccess

(* ------------------------------------------- std::string / std::map order *)
RECURSIVE StrLess(_, _)
StrLess(a, b) ==
  IF b = <<>> THEN FALSE
  ELSE IF a = <<>> THEN TRUE
  ELSE IF a[1] # b[1] THEN a[1] < b[1]
  ELSE StrLess(Tail(a), Tail(b))

MapHas(m, k) == \E i \in 1 .. Len(m) : m[i].key = k

InsertAt(m, n, e) == SubSeq(m, 1, n) \o <<e>> \o SubSeq(m, n + 1, Len(m))

MapInsertOverwrite(m, k, x) ==
  IF MapHas(m, k)
  THEN [second |-> TRUE,
        map |-> [i \in 1 .. Len(m) |-> IF m[i].key = k THEN [key |-> k, val |-> x] ELSE m[i]]]
  ELSE [second |-> TRUE,
        map |-> InsertAt(m, Cardinality({i \in 1 .. Len(m) : StrLess(m[i].key, k)}),
                         [key |-> k, val |-> x])]

MapInsertAppend(m, k, x) ==
  IF MapHas(m, k)
  THEN [second |-> FALSE, map |-> m]
  ELSE [second |-> TRUE, map |-> Append(m, [key |-> k, val |-> x])]

MapInsert(m, k, x) ==
  IF MapHas(m, k)
  THEN [second |-> FALSE, map |-> m]
  ELSE [second |-> TRUE,
        map |-> InsertAt(m, Cardinality({i \in 1 .. Len(m) : StrLess(m[i].key, k)}),
                         [key |-> k, val |-> x])]

PushFront(l, x) == <<x>> \o l

push_back(l, x) == Append(l, x)

(* ------------------------------------------------------------ parseInt *)
AccDigitNoCarry(result, c) == WrapInt(result + (c - Ch0))

AccDigit(result, c) == WrapInt(result * 10 + (c - Ch0))

RECURSIVE IntLoop(_, _, _)
IntLoop(input, p, result) ==
  IF p < Size(input) /\ isdigit(At(input, p))
  THEN IntLoop(input, p + 1, AccDigit(result, At(input, p)))
  ELSE [pos |-> p, result |-> result]

NoLeadingZeroCheck(input, p) == FALSE

LeadingZero(input, p) ==
  At(input, p) = Ch0 /\ p + 1 < Size(input) /\ At(input, p + 1) # ChE

ApplySignNever(negative, result) == result

ApplySign(negative, result) == IF negative THEN WrapInt(0 - result) ELSE result

Fail(p, msg) == [ok |-> FALSE, pos |-> p, v |-> <<>>, msg |-> msg]

Ok(p, x) == [ok |-> TRUE, pos |-> p, v |-> x, msg |-> ""]

parseInt(input, pos) ==
  IF pos >= Size(input) \/ At(input, pos) # ChI
  THEN Fail(pos + 1, "Invalid integer format")
  ELSE
    LET p1 == pos + 1
        negative == p1 < Size(input) /\ At(input, p1) = ChMinus
        p2 == IF negative THEN p1 + 1 ELSE p1
    IN IF p2 >= Size(input) \/ ~isdigit(At(input, p2))
       THEN Fail(p2, "Invalid integer format: no digits")
       ELSE IF LeadingZero(input, p2)
       THEN Fail(p2, "Invalid integer format: leading zeros")
       ELSE
         LET r == IntLoop(input, p2, 0)
         IN IF r.pos >= Size(input) \/ At(input, r.pos) # ChE
            THEN Fail(IF r.pos >= Size(input) THEN r.pos ELSE r.pos + 1,
                      "Invalid integer format: missing 'e'")
            ELSE Ok(r.pos + 1, ApplySign(negative, r.result))

(* --------------------------------------------------------- parseString *)
find(input, c, pos) ==
  LET hits == {k \in pos .. Size(input) - 1 : At(input, k) = c}
  IN IF hits = {} THEN -1 ELSE CHOOSE k \in hits : \A j \in hits : k <= j

Min(a, b) == IF a <= b THEN a ELSE b

substrCStr(input, pos, n) ==
  LET e == Min(pos + n, Size(input))
      nul == {k \in pos .. e - 1 : At(input, k) = 0}
      stop == IF nul = {} THEN e ELSE CHOOSE k \in nul : \A j \in nul : k <= j
  IN SubSeq(input, pos + 1, stop)

substr(input, pos, n) == SubSeq(input, pos + 1, Min(pos + n, Size(input)))

RECURSIVE LengthLoop(_, _)
LengthLoop(lengthStr, length) ==
  IF lengthStr = <<>> THEN length
  ELSE LengthLoop(Tail(lengthStr), WrapSize(length * 10 + (Head(lengthStr) - Ch0)))

parseString(input, pos) ==
  LET colonPos == find(input, ChColon, pos)
  IN IF colonPos = -1
     THEN Fail(pos, "Invalid string format: missing colon")
     ELSE
       LET lengthStr == substr(input, pos, colonPos - pos)
       IN IF Len(lengthStr) > 1 /\ lengthStr[1] = Ch0
          THEN Fail(pos, "Invalid string length: leading zeros")
          ELSE IF \E i \in 1 .. Len(lengthStr) : ~isdigit(lengthStr[i])
          THEN Fail(pos, "Invalid string length: non-digit character")
          ELSE
            LET length == LengthLoop(lengthStr, 0)
                p == colonPos + 1
            IN IF WrapSize(p + length) > Size(input)
               THEN Fail(p, "Invalid string: insufficient characters")
               ELSE Ok(WrapSize(p + length), substr(input, p, length))

(* ------------------------------------------------- canonical encodings *)
RECURSIVE Dec(_)
Dec(n) == IF n < 10 THEN <<Ch0 + n>> ELSE Dec(n \div 10) \o <<Ch0 + (n % 10)>>

EncInt(n) ==
  <<ChI>> \o (IF n < 0 THEN <<ChMinus>> \o Dec(0 - n) ELSE Dec(n)) \o <<ChE>>

EncStr(b) == Dec(Len(b)) \o <<ChColon>> \o b

RECURSIVE Enc(_)
RECURSIVE EncAll(_)
RECURSIVE EncPairs(_)
Enc(x) ==
  IF x.type = "int" THEN EncInt(x.v)
  ELSE IF x.type = "str" THEN EncStr(x.v)
  ELSE IF x.type = "list" THEN <<ChL>> \o EncAll(x.v) \o <<ChE>>
  ELSE <<ChD>> \o EncPairs(x.v) \o <<ChE>>
EncAll(xs) == IF xs = <<>> THEN <<>> ELSE Enc(Head(xs)) \o EncAll(Tail(xs))
EncPairs(m) ==
  IF m = <<>> THEN <<>>
  ELSE EncStr(Head(m).key) \o Enc(Head(m).val) \o EncPairs(Tail(m))

(* ----------------------------------------------------- input buffers *)
SeqsUpTo(S, n) == UNION {[1 .. k -> S] : k \in 0 .. n}

RECURSIVE Cat(_)
Cat(ss) == IF ss = <<>> THEN <<>> ELSE Head(ss) \o Cat(Tail(ss))

Rep(b, n) == [i \in 1 .. n |-> b]

IntTails == {<<ChE>>, <<>>, <<ChColon>>, <<ChE, ChE>>}

IntInputs ==
  {<<ChI>> \o sg \o ds \o tl :
     sg \in {<<>>, <<ChMinus>>}, ds \in SeqsUpTo(Digits, MaxDigits), tl \in IntTails}

ContentBytes == {0, ChColon, ChE, Ch0 + 1, 200}

Bodies == SeqsUpTo(ContentBytes, MaxStr) \cup {Rep(0, n) : n \in 3 .. MaxRun}

Prefixes == SeqsUpTo(Digits, 2) \cup {<<Ch0 + 1, 97>>, <<Ch0 + 1, ChMinus>>}

ShortBodies == SeqsUpTo(ContentBytes, 1)

StrInputs ==
  {ld \o pre \o mid \o body :
     ld \in {<<>>, <<ChL>>}, pre \in Prefixes, mid \in {<<ChColon>>, <<>>}, body \in ShortBodies}
    \cup {EncStr(b) : b \in Bodies}
    \cup {SubSeq(EncStr(b), 1, Len(EncStr(b)) - 1) : b \in Bodies}

Tokens ==
  {<<ChL>>, <<ChD>>, <<ChE>>, <<Ch0 + 1, ChColon, 97>>, <<Ch0 + 1, ChColon, 98>>,
   <<ChI, Ch0 + 1, ChE>>}

CompInputs ==
  {op \o Cat(ts) \o cl :
     op \in {<<ChL>>, <<ChD>>}, ts \in SeqsUpTo(Tokens, MaxItems), cl \in {<<ChE>>, <<>>}}

Elems ==
  {IntValue(7), IntValue(0 - 3), StringValue(<<97>>), StringValue(<<>>),
   ListValue(<<>>), ListValue(<<IntValue(7)>>), DictValue(<<>>),
   DictValue(<<[key |-> <<97>>, val |-> IntValue(7)]>>)}

ListCases == SeqsUpTo(Elems, MaxElems)

ListTable == {<<Enc(ListValue(xs)), xs>> : xs \in ListCases}

ListInputs == {p[1] : p \in ListTable} \cup {SubSeq(p[1], 1, Len(p[1]) - 1) : p \in ListTable}

(* ---------------------------------------------- dictionaries as written *)
PairKeys == {<<97>>, <<98>>}

PairVals ==
  {IntValue(1), StringValue(<<97>>), StringValue(<<98>>), ListValue(<<>>), DictValue(<<>>)}

Pairs == {[key |-> k, val |-> x] : k \in PairKeys, x \in PairVals}

DistinctKeys(m) == \A i, j \in 1 .. Len(m) : m[i].key = m[j].key => i = j

IsPrefix(a, b) == Len(a) <= Len(b) /\ SubSeq(b, 1, Len(a)) = a

(* pair sequences whose last key repeats an earlier one, the earlier keys distinct *)
DupCases ==
  {ps \in SeqsUpTo(Pairs, MaxPairs) :
     /\ Len(ps) >= 2
     /\ DistinctKeys(SubSeq(ps, 1, Len(ps) - 1))
     /\ \E i \in 1 .. Len(ps) - 1 : ps[i].key = ps[Len(ps)].key}

DupPrefixes == {<<ChD>> \o EncPairs(ps) : ps \in DupCases}

(* pair sequences with distinct keys, in any order *)
DictCases == {ps \in SeqsUpTo(Pairs, MaxPairs) : DistinctKeys(ps)}

DictTable == {<<<<ChD>> \o EncPairs(ps) \o <<ChE>>, ps>> : ps \in DictCases}

DictInputs ==
  {p[1] : p \in DictTable} \cup {SubSeq(p[1], 1, Len(p[1]) - 1) : p \in DictTable}
    \cup DupPrefixes \cup {d \o <<ChE>> : d \in DupPrefixes}

Inputs ==
  {i \in IntInputs \cup StrInputs \cup CompInputs \cup ListInputs \cup DictInputs :
     Len(i) <= MaxSize}

(* ------------------------------------------------------------- state *)
VARIABLES input, pos, stack, pc, outcome, result, err, work, acc, tf

vars == <<input, pos, stack, pc, outcome, result, err, work, acc, tf>>

Calls == DOMAIN input

NoAccess == [call |-> "none", node |-> NoValue, res |-> BadVariantAccess]

(* the cursor a decode call works on: the local `size_t pos` of parse() *)
CursorShared(c) == 1

CursorOf(c) == c

Cur(c) == pos[CursorOf(c)]

(* a TorrentFile before its constructor has run: the member defaults *)
NoTorrent ==
  [pc |-> "idle", root |-> NoValue, announce |-> <<>>, name |-> <<>>, pieceLength |-> 0,
   pieces |-> <<>>, files |-> <<>>, totalSize |-> 0, createdBy |-> <<>>, creationDate |-> 0,
   singleFile |-> TRUE, err |-> "", todo |-> <<>>]

InitCalls(ins) ==
  /\ input = ins
  /\ pos = [c \in DOMAIN ins |-> 0]
  /\ stack = [c \in DOMAIN ins |-> <<>>]
  /\ pc = [c \in DOMAIN ins |-> "start"]
  /\ outcome = [c \in DOMAIN ins |-> "running"]
  /\ result = [c \in DOMAIN ins |-> NoValue]
  /\ err = [c \in DOMAIN ins |-> ""]
  /\ work = [c \in DOMAIN ins |-> 0]
  /\ acc = [c \in DOMAIN ins |-> NoAccess]

Init == tf = NoTorrent /\ \E i \in Inputs : InitCalls(<<i>>)

Set(c, p, st, k, o, r, e, w) ==
  /\ pos' = [pos EXCEPT ![CursorOf(c)] = p]
  /\ stack' = [stack EXCEPT ![c] = st]
  /\ pc' = [pc EXCEPT ![c] = k]
  /\ outcome' = [outcome EXCEPT ![c] = o]
  /\ result' = [result EXCEPT ![c] = r]
  /\ err' = [err EXCEPT ![c] = e]
  /\ work' = [work EXCEPT ![c] = w]
  /\ UNCHANGED <<input, acc, tf>>

(* throw std::runtime_error(msg): unwinds every frame, nothing is returned *)
Throw(c, p, msg, w) == Set(c, p, <<>>, "done", "error", NoValue, msg, w)

Frame(kind) == [kind |-> kind, items |-> <<>>, key |-> <<>>]

Top(st) == st[Len(st)]

Pop(st) == SubSeq(st, 1, Len(st) - 1)

(* a parsed value x goes back to the caller of parseValue: parse(), the  *)
(* element loop of parseList, or the pair loop of parseDict              *)
Return(c, st, x, p, w) ==
  IF st = <<>>
  THEN Set(c, p, <<>>, "done", "value", x, "", w)
  ELSE IF Top(st).kind = "list"
  THEN Set(c, p, Pop(st) \o <<[Top(st) EXCEPT !.items = push_back(@, x)]>>,
           "list", "running", NoValue, "", w)
  ELSE LET ins == MapInsert(Top(st).items, Top(st).key, x)
       IN IF ~ins.second
          THEN Throw(c, p, "Duplicate dictionary key", w)
          ELSE Set(c, p, Pop(st) \o <<[Top(st) EXCEPT !.items = ins.map, !.key = <<>>]>>,
                   "dict", "running", NoValue, "", w)

(* ------------------------------------------------------------ actions *)
(* BencodeParser::parse: a fresh cursor at offset 0, then parseValue *)
parse(c) ==
  /\ pc[c] = "start"
  /\ Set(c, 0, <<>>, "value", "running", NoValue, "", work[c])

AtValue(c) == pc[c] = "value" /\ work[c] < MaxWork

(* parseValue: cursor at or past the end of input *)
parseValueEnd(c) ==
  /\ AtValue(c)
  /\ Cur(c) >= Size(input[c])
  /\ Throw(c, Cur(c), "Unexpected end of input", work[c] + 1)

(* parseValue: a digit selects parseString *)
parseValueString(c) ==
  /\ AtValue(c)
  /\ Cur(c) < Size(input[c])
  /\ isdigit(At(input[c], Cur(c)))
  /\ LET r == parseString(input[c], Cur(c))
     IN IF r.ok
        THEN Return(c, stack[c], StringValue(r.v), r.pos, work[c] + 1)
        ELSE Throw(c, r.pos, r.msg, work[c] + 1)

(* parseValue: 'i' selects parseInt *)
parseValueInt(c) ==
  /\ AtValue(c)
  /\ Cur(c) < Size(input[c])
  /\ At(input[c], Cur(c)) = ChI
  /\ LET r == parseInt(input[c], Cur(c))
     IN IF r.ok
        THEN Return(c, stack[c], IntValue(r.v), r.pos, work[c] + 1)
        ELSE Throw(c, r.pos, r.msg, work[c] + 1)

(* parseValue: 'l' selects parseList, which skips the 'l' and starts its loop *)
parseValueList(c) ==
  /\ AtValue(c)
  /\ Cur(c) < Size(input[c])
  /\ At(input[c], Cur(c)) = ChL
  /\ Set(c, Cur(c) + 1, Append(stack[c], Frame("list")), "list", "running", NoValue, "",
         work[c] + 1)

(* parseValue: 'd' selects parseDict, which skips the 'd' and starts its loop *)
parseValueDict(c) ==
  /\ AtValue(c)
  /\ Cur(c) < Size(input[c])
  /\ At(input[c], Cur(c)) = ChD
  /\ Set(c, Cur(c) + 1, Append(stack[c], Frame("dict")), "dict", "running", NoValue, "",
         work[c] + 1)

(* parseValue: any other lead byte *)
parseValueInvalid(c) ==
  /\ AtValue(c)
  /\ Cur(c) < Size(input[c])
  /\ ~isdigit(At(input[c], Cur(c)))
  /\ At(input[c], Cur(c)) \notin {ChI, ChL, ChD}
  /\ Throw(c, Cur(c), "Invalid value type", work[c] + 1)

(* the process runs out of memory or call stack: one more element or     *)
(* nested call cannot be allocated                                       *)
ResourceExhausted(c) ==
  /\ pc[c] = "value"
  /\ work[c] >= MaxWork
  /\ Set(c, Cur(c), <<>>, "done", "exhausted", NoValue, "resource exhausted", work[c])

InLoop(c) == Cur(c) < Size(input[c]) /\ At(input[c], Cur(c)) # ChE

(* parseList: the loop test holds, the next element is parsed *)
parseListElement(c) ==
  /\ pc[c] = "list"
  /\ InLoop(c)
  /\ Set(c, Cur(c), stack[c], "value", "running", NoValue, "", work[c])

(* parseList: the loop is left; the closing 'e' is required and skipped *)
parseListClose(c) ==
  /\ pc[c] = "list"
  /\ ~InLoop(c)
  /\ IF Cur(c) >= Size(input[c])
     THEN Throw(c, Cur(c), "Invalid list format: missing 'e'", work[c])
     ELSE Return(c, Pop(stack[c]), ListValue(Top(stack[c]).items), Cur(c) + 1, work[c])

(* parseDict: the loop test holds, the key is checked and parsed *)
parseDictKey(c) ==
  /\ pc[c] = "dict"
  /\ InLoop(c)
  /\ IF ~isdigit(At(input[c], Cur(c)))
     THEN Throw(c, Cur(c), "Invalid dictionary key: must be string", work[c])
     ELSE LET r == parseString(input[c], Cur(c))
          IN IF r.ok
             THEN Set(c, r.pos, Pop(stack[c]) \o <<[Top(stack[c]) EXCEPT !.key = r.v]>>,
                      "value", "running", NoValue, "", work[c])
             ELSE Throw(c, r.pos, r.msg, work[c])

(* parseDict: the loop is left; the closing 'e' is required and skipped *)
parseDictClose(c) ==
  /\ pc[c] = "dict"
  /\ ~InLoop(c)
  /\ IF Cur(c) >= Size(input[c])
     THEN Throw(c, Cur(c), "Invalid dictionary format: missing 'e'", work[c])
     ELSE Return(c, Pop(stack[c]), DictValue(Top(stack[c]).items), Cur(c) + 1, work[c])

(* every Value of a decoded tree *)
RECURSIVE Nodes(_)
Nodes(x) ==
  IF x.type = "list" THEN {x} \cup UNION {Nodes(x.v[i]) : i \in 1 .. Len(x.v)}
  ELSE IF x.type = "dict" THEN {x} \cup UNION {Nodes(x.v[i].val) : i \in 1 .. Len(x.v)}
  ELSE {x}

Decoded(c) == pc[c] = "done" /\ outcome[c] = "value"

Access(c, name, node, res) ==
  /\ acc' = [acc EXCEPT ![c] = [call |-> name, node |-> node, res |-> res]]
  /\ UNCHANGED <<input, pos, stack, pc, outcome, result, err, work, tf>>

callGetInt(c) == Decoded(c) /\ \E x \in Nodes(result[c]) : Access(c, "getInt", x, getInt(x))

callGetString(c) ==
  Decoded(c) /\ \E x \in Nodes(result[c]) : Access(c, "getString", x, getString(x))

callGetList(c) == Decoded(c) /\ \E x \in Nodes(result[c]) : Access(c, "getList", x, getList(x))

callGetDict(c) == Decoded(c) /\ \E x \in Nodes(result[c]) : Access(c, "getDict", x, getDict(x))

Next ==
  \/ \E c \in Calls : parse(c)
  \/ \E c \in Calls : parseValueEnd(c)
  \/ \E c \in Calls : parseValueString(c)
  \/ \E c \in Calls : parseValueInt(c)
  \/ \E c \in Calls : parseValueList(c)
  \/ \E c \in Calls : parseValueDict(c)
  \/ \E c \in Calls : parseValueInvalid(c)
  \/ \E c \in Calls : ResourceExhausted(c)
  \/ \E c \in Calls : parseListElement(c)
  \/ \E c \in Calls : parseListClose(c)
  \/ \E c \in Calls : parseDictKey(c)
  \/ \E c \in Calls : parseDictClose(c)
  \/ \E c \in Calls : callGetInt(c)
  \/ \E c \in Calls : callGetString(c)
  \/ \E c \in Calls : callGetList(c)
  \/ \E c \in Calls : callGetDict(c)

Spec == Init /\ [][Next]_vars

TypeOK == \A c \in Calls : pc[c] \in {"start", "value", "list", "dict", "done"}

Done(c) == pc[c] = "done"

(* ====================================================================== *)
(* C1: for every n of the integer width, minimum and maximum included,    *)
(* decoding 'i' + decimal digits of n (with '-' if negative) + 'e' yields *)
(* the Integer n; 'i0e' yields 0 and 'i-0e' is accepted and yields 0.     *)
C1_IntRoundTrip ==
  \A c \in Calls :
    Done(c) =>
      /\ \A n \in IntMin .. IntMax :
           input[c] = EncInt(n) =>
             (outcome[c] = "value" /\ isInt(result[c]) /\ result[c].v = n)
      /\ input[c] = <<ChI, ChMinus, Ch0, ChE>> =>
           (outcome[c] = "value" /\ isInt(result[c]) /\ result[c].v = 0)

C1_Witness ==
  \E c \in Calls :
    /\ Done(c) /\ input[c] = EncInt(IntMin)
    /\ outcome[c] = "value" /\ isInt(result[c]) /\ result[c].v = IntMin

(* C2: for every byte sequence B (zero bytes, ':', 'e', digits, high      *)
(* bytes), decoding "<decimal length of B>:<B>" yields the ByteString B;  *)
(* "0:" yields the empty string.                                          *)
C2_StringRoundTrip ==
  \A c \in Calls :
    Done(c) =>
      \A b \in Bodies :
        input[c] = EncStr(b) =>
          (outcome[c] = "value" /\ isString(result[c]) /\ result[c].v = b)

C2_Witness ==
  \E c \in Calls :
    /\ Done(c) /\ input[c] = EncStr(<<0, ChColon>>)
    /\ outcome[c] = "value" /\ isString(result[c]) /\ result[c].v = <<0, ChColon>>

DictNodes(c) ==
  {x \in Nodes(result[c]) : isDict(x)}
    \cup {DictValue(stack[c][i].items) : i \in {j \in 1 .. Len(stack[c]) : stack[c][j].kind = "dict"}}

(* C3: a dictionary in which a key occurs twice at one nesting level      *)
(* fails with "Duplicate dictionary key", as soon as the second pair is   *)
(* inserted (whatever follows it, closed or not); every Dictionary of a   *)
(* decoded tree, and every one under construction, has distinct keys.     *)
C3_DuplicateKeyFails ==
  \A c \in Calls :
    /\ \A x \in DictNodes(c) : DistinctKeys(x.v)
    /\ Done(c) =>
         \A d \in DupPrefixes :
           IsPrefix(d, input[c]) =>
             (outcome[c] = "error" /\ err[c] = "Duplicate dictionary key" /\ result[c] = NoValue)

C3_Witness ==
  \E c \in Calls :
    /\ Done(c) /\ outcome[c] = "error" /\ err[c] = "Duplicate dictionary key"
    /\ \E d \in DupPrefixes : input[c] = d

KeysOf(m) == [i \in 1 .. Len(m) |-> m[i].key]

(* C4 as stated: iterating a decoded Dictionary visits the keys in the    *)
(* order in which they appear in the source bytes, sorted or not.         *)
C4_SourceOrder ==
  \A c \in Calls :
    Done(c) =>
      \A p \in DictTable :
        input[c] = p[1] =>
          (outcome[c] = "value" /\ isDict(result[c]) /\ KeysOf(result[c].v) = KeysOf(p[2]))

Ascending(m) == \A i, j \in 1 .. Len(m) : i < j => StrLess(m[i].key, m[j].key)

(* C4 amended: iterating a decoded Dictionary visits the keys in          *)
(* ascending byte order, whatever their order in the source bytes; the    *)
(* pairs are those of the source.                                         *)
C4_SortedOrder ==
  \A c \in Calls :
    /\ \A x \in DictNodes(c) : Ascending(x.v)
    /\ Done(c) =>
         \A p \in DictTable :
           input[c] = p[1] =>
             /\ outcome[c] = "value" /\ isDict(result[c])
             /\ Len(result[c].v) = Len(p[2])
             /\ {result[c].v[i] : i \in 1 .. Len(result[c].v)} = {p[2][i] : i \in 1 .. Len(p[2])}

C4_Witness ==
  \E c \in Calls :
    /\ Done(c) /\ outcome[c] = "value" /\ isDict(result[c])
    /\ input[c] = <<ChD>> \o EncStr(<<98>>) \o EncInt(1) \o EncStr(<<97>>) \o EncInt(1) \o <<ChE>>
    /\ KeysOf(result[c].v) = <<<<97>>, <<98>>>>

(* ------------------------------------------- tokens as the grammar reads *)
(* number of bytes from offset p on that are ASCII digits *)
RECURSIVE DigitRun(_, _)
DigitRun(i, p) == IF p < Len(i) /\ isdigit(At(i, p)) THEN 1 + DigitRun(i, p + 1) ELSE 0

(* the number a digit sequence writes, as a mathematical integer *)
RECURSIVE Written(_)
Written(ds) ==
  IF ds = <<>> THEN 0 ELSE 10 * Written(SubSeq(ds, 1, Len(ds) - 1)) + (ds[Len(ds)] - Ch0)

HasColon(i) == \E k \in 1 .. Len(i) : i[k] = ChColon

FirstColon(i) == CHOOSE k \in 1 .. Len(i) : i[k] = ChColon /\ \A j \in 1 .. k - 1 : i[j] # ChColon

LengthPrefix(i) == SubSeq(i, 1, FirstColon(i) - 1)

BadLength(i) ==
  \/ ~HasColon(i)
  \/ Len(LengthPrefix(i)) > 1 /\ LengthPrefix(i)[1] = Ch0
  \/ \E k \in 1 .. Len(LengthPrefix(i)) : ~isdigit(LengthPrefix(i)[k])
  \/ Written(LengthPrefix(i)) > Len(i) - FirstColon(i)

(* C5 as stated: a ByteString whose length prefix has a leading zero,     *)
(* holds a non-digit, has no ':' or declares more bytes than remain after *)
(* the colon fails, for length prefixes of any number of digits; a        *)
(* decoded ByteString holds exactly the declared number of bytes.         *)
C5_LengthChecked ==
  \A c \in Calls :
    (Done(c) /\ input[c] # <<>> /\ isdigit(input[c][1])) =>
      /\ BadLength(input[c]) => outcome[c] = "error"
      /\ outcome[c] = "value" =>
           (isString(result[c]) /\ Len(result[c].v) = Written(LengthPrefix(input[c])))

IntStart(i) == IF Len(i) >= 2 /\ i[2] = ChMinus THEN 2 ELSE 1

NoDigits(i) == DigitRun(i, IntStart(i)) = 0

LeadingZeroDigits(i) == DigitRun(i, IntStart(i)) >= 2 /\ At(i, IntStart(i)) = Ch0

NotClosed(i) ==
  LET q == IntStart(i) + DigitRun(i, IntStart(i)) IN q >= Len(i) \/ At(i, q) # ChE

IntErrors ==
  {"Invalid integer format: no digits", "Invalid integer format: leading zeros",
   "Invalid integer format: missing 'e'"}

(* C6: an integer token with no digit after 'i' or 'i-', with a first     *)
(* digit '0' followed by another digit, or not closed by 'e' right after  *)
(* its digits (input ending there included) fails with a malformed-input  *)
(* error and returns nothing.                                             *)
C6_BadIntegerFails ==
  \A c \in Calls :
    (Done(c) /\ input[c] # <<>> /\ input[c][1] = ChI) =>
      ((NoDigits(input[c]) \/ LeadingZeroDigits(input[c]) \/ NotClosed(input[c])) =>
         (outcome[c] = "error" /\ err[c] \in IntErrors /\ result[c] = NoValue))

C6_Witness ==
  \E c \in Calls :
    /\ Done(c) /\ input[c] = <<ChI, ChMinus, Ch0, Ch0 + 1, ChE>>
    /\ outcome[c] = "error" /\ err[c] = "Invalid integer format: leading zeros"

(* C7: decoding 'l' + e1 .. ek + 'e', the e's being the encodings of      *)
(* values v1 .. vk of mixed and nested types, yields the List v1 .. vk in *)
(* that order; 'le' yields the empty list; the same input without the     *)
(* closing 'e' fails with "missing 'e'".                                  *)
C7_ListInOrder ==
  \A c \in Calls :
    Done(c) =>
      \A p \in ListTable :
        /\ input[c] = p[1] =>
             (outcome[c] = "value" /\ isList(result[c]) /\ result[c].v = p[2])
        /\ input[c] = SubSeq(p[1], 1, Len(p[1]) - 1) =>
             (outcome[c] = "error" /\ err[c] = "Invalid list format: missing 'e'")

C7_Witness ==
  \E c \in Calls :
    /\ Done(c) /\ input[c] = Enc(ListValue(<<IntValue(7), StringValue(<<97>>)>>))
    /\ outcome[c] = "value" /\ isList(result[c])
    /\ result[c].v = <<IntValue(7), StringValue(<<97>>)>>

(* C8 as stated: every decode call ends in a Value or in a malformed-     *)
(* input error with no partial result, and the element loops cannot run   *)
(* on: no call parses more values than its buffer has bytes.              *)
C8_Terminates ==
  \A c \in Calls :
    /\ outcome[c] \in {"running", "value", "error"}
    /\ work[c] <= Len(input[c]) + 1
    /\ outcome[c] = "error" => result[c] = NoValue

Matches(name, x) ==
  \/ name = "getInt" /\ isInt(x)
  \/ name = "getString" /\ isString(x)
  \/ name = "getList" /\ isList(x)
  \/ name = "getDict" /\ isDict(x)

(* C9: exactly one of isInt, isString, isList, isDict holds of a Value;   *)
(* the accessor of the active variant returns the held value, each other  *)
(* accessor fails with bad_variant_access, which is not the decoder's     *)
(* error, and the Value and the decode outcome stay as they were.         *)
C9_TypedAccess ==
  \A c \in Calls :
    /\ \A x \in Nodes(result[c]) :
         Decoded(c) => Cardinality({t \in {"int", "str", "list", "dict"} : x.type = t}) = 1
    /\ acc[c].call # "none" =>
         /\ Decoded(c) /\ err[c] = "" /\ acc[c].node \in Nodes(result[c])
         /\ Matches(acc[c].call, acc[c].node) =>
              (acc[c].res.ok /\ acc[c].res.v = acc[c].node.v)
         /\ ~Matches(acc[c].call, acc[c].node) =>
              (~acc[c].res.ok /\ acc[c].res.what = "bad_variant_access")

C9_Witness ==
  \E c \in Calls :
    /\ acc[c].call = "getInt" /\ isString(acc[c].node)
    /\ ~acc[c].res.ok /\ acc[c].res.what = "bad_variant_access"

(* ------------------------------------- the decoder as the code recurses *)
Exhausted(p, w) ==
  [ok |-> FALSE, pos |-> p, v |-> <<>>, msg |-> "resource exhausted", w |-> w, kind |-> "exhausted"]

Thrown(r, w) ==
  [ok |-> FALSE, pos |-> r.pos, v |-> <<>>, msg |-> r.msg, w |-> w, kind |-> "error"]

Returned(p, x, w) == [ok |-> TRUE, pos |-> p, v |-> x, msg |-> "", w |-> w, kind |-> "value"]

RECURSIVE parseValue(_, _, _)
RECURSIVE parseList(_, _, _, _)
RECURSIVE parseDict(_, _, _, _)
parseValue(i, p, w) ==
  IF w >= MaxWork THEN Exhausted(p, w)
  ELSE IF p >= Size(i) THEN Thrown(Fail(p, "Unexpected end of input"), w + 1)
  ELSE IF isdigit(At(i, p))
  THEN LET r == parseString(i, p)
       IN IF r.ok THEN Returned(r.pos, StringValue(r.v), w + 1) ELSE Thrown(r, w + 1)
  ELSE IF At(i, p) = ChI
  THEN LET r == parseInt(i, p)
       IN IF r.ok THEN Returned(r.pos, IntValue(r.v), w + 1) ELSE Thrown(r, w + 1)
  ELSE IF At(i, p) = ChL THEN parseList(i, p + 1, <<>>, w + 1)
  ELSE IF At(i, p) = ChD THEN parseDict(i, p + 1, <<>>, w + 1)
  ELSE Thrown(Fail(p, "Invalid value type"), w + 1)
parseList(i, p, items, w) ==
  IF p < Size(i) /\ At(i, p) # ChE
  THEN LET r == parseValue(i, p, w)
       IN IF r.ok THEN parseList(i, r.pos, push_back(items, r.v), r.w) ELSE r
  ELSE IF p >= Size(i) THEN Thrown(Fail(p, "Invalid list format: missing 'e'"), w)
  ELSE Returned(p + 1, ListValue(items), w)
parseDict(i, p, m, w) ==
  IF p < Size(i) /\ At(i, p) # ChE
  THEN IF ~isdigit(At(i, p))
       THEN Thrown(Fail(p, "Invalid dictionary key: must be string"), w)
       ELSE LET k == parseString(i, p)
            IN IF ~k.ok THEN Thrown(k, w)
               ELSE LET r == parseValue(i, k.pos, w)
                    IN IF ~r.ok THEN r
                       ELSE LET ins == MapInsert(m, k.v, r.v)
                            IN IF ~ins.second
                               THEN Thrown(Fail(r.pos, "Duplicate dictionary key"), r.w)
                               ELSE parseDict(i, r.pos, ins.map, r.w)
  ELSE IF p >= Size(i) THEN Thrown(Fail(p, "Invalid dictionary format: missing 'e'"), w)
  ELSE Returned(p + 1, DictValue(m), w)

(* what one decode call on buffer i gives when it runs alone *)
Alone(i) ==
  LET r == parseValue(i, 0, 0)
  IN [outcome |-> r.kind, result |-> IF r.ok THEN r.v ELSE NoValue, err |-> r.msg]

(* ------------------------------------------- several calls interleaved *)
ConcInputs ==
  {<<>>,
   <<ChE>>,
   <<ChI, ChMinus, Ch0 + 3, ChE>>,
   <<ChL, Ch0 + 1, ChColon, 97, ChI, Ch0 + 7, ChE, ChE>>,
   <<ChD, Ch0 + 1, ChColon, 98, ChL, ChE, Ch0 + 1, ChColon, 97, ChD, ChE, ChE>>,
   <<ChD, Ch0 + 1, ChColon, 97, ChI, Ch0, ChE, Ch0 + 1, ChColon, 97, ChI, Ch0, ChE>>,
   <<ChL>> \o Dec(SizeMod - 3) \o <<ChColon>>}

InitConc == tf = NoTorrent /\ \E a \in ConcInputs, b \in ConcInputs : InitCalls(<<a, b>>)

SpecConc == InitConc /\ [][Next]_vars

(* C10: the outcome of a decode call depends on its own buffer only: two  *)
(* calls on equal buffers end in equal trees or equal failures, and each  *)
(* of several interleaved calls ends as it does when run alone.           *)
C10_Independent ==
  \A c \in Calls :
    Done(c) =>
      /\ [outcome |-> outcome[c], result |-> result[c], err |-> err[c]] = Alone(input[c])
      /\ \A d \in Calls :
           (Done(d) /\ input[d] = input[c]) =>
             (outcome[d] = outcome[c] /\ result[d] = result[c] /\ err[d] = err[c])

C10_Witness ==
  \E c, d \in Calls :
    /\ c # d /\ Done(c) /\ Done(d)
    /\ input[c] = input[d] /\ outcome[c] = "value" /\ isList(result[c])
    /\ result[c] = result[d]

(* ====================================================================== *)
(* TorrentFile (src/src/torrentfile.cpp): metadata read from a decoded    *)
(* root Value.                                                            *)
KeyAnnounce == <<97, 110, 110, 111, 117, 110, 99, 101>>

KeyCreationDate == <<99, 114, 101, 97, 116, 105, 111, 110, 32, 100, 97, 116, 101>>

KeyCreatedBy == <<99, 114, 101, 97, 116, 101, 100, 32, 98, 121>>

KeyInfo == <<105, 110, 102, 111>>

KeyPieceLength == <<112, 105, 101, 99, 101, 32, 108, 101, 110, 103, 116, 104>>

KeyPieces == <<112, 105, 101, 99, 101, 115>>

KeyName == <<110, 97, 109, 101>>

KeyLength == <<108, 101, 110, 103, 116, 104>>

KeyFiles == <<102, 105, 108, 101, 115>>

KeyPath == <<112, 97, 116, 104>>

ChSlash == 47

HashLen == 20

(* std::map::find followed by the type test of the found value *)
MapFind(m, k) == IF MapHas(m, k) THEN (CHOOSE e \in {m[i] : i \in 1 .. Len(m)} : e.key = k).val ELSE NoValue

HasInt(m, k) == MapHas(m, k) /\ isInt(MapFind(m, k))

HasString(m, k) == MapHas(m, k) /\ isString(MapFind(m, k))

HasListNever(m, k) == FALSE

HasList(m, k) == MapHas(m, k) /\ isList(MapFind(m, k))

HasDict(m, k) == MapHas(m, k) /\ isDict(MapFind(m, k))

(* the loop over piecesStr in steps of 20 bytes *)
RECURSIVE SplitLoop(_, _, _)
SplitLoop(piecesStr, i, out) ==
  IF i < Len(piecesStr)
  THEN SplitLoop(piecesStr, i + HashLen, push_back(out, substr(piecesStr, i, HashLen)))
  ELSE out

(* the loop over the components of a file's path list *)
RECURSIVE PathLoop(_, _, _)
PathLoop(pathList, i, path) ==
  IF i < Len(pathList)
  THEN IF ~isString(pathList[i + 1])
       THEN PathLoop(pathList, i + 1, path)
       ELSE PathLoop(pathList, i + 1,
                     (IF i > 0 THEN path \o <<ChSlash>> ELSE path) \o pathList[i + 1].v)
  ELSE path

FileInfoNoPath(path, length) == [path |-> <<>>, length |-> length]

FileInfo(path, length) == [path |-> path, length |-> length]

TorrentThrow(t, msg) == [t EXCEPT !.pc = "failed", !.err = msg]

TorrentStep(t) == tf' = t /\ UNCHANGED <<input, pos, stack, pc, outcome, result, err, work, acc>>

(* TorrentFile::TorrentFile, after the decode: the root must be a dictionary *)
TorrentFileCtor ==
  /\ tf.pc = "start"
  /\ IF ~isDict(tf.root)
     THEN TorrentStep(TorrentThrow(tf, "Invalid torrent file: root must be a dictionary"))
     ELSE TorrentStep([tf EXCEPT !.pc = "torrentDict"])

(* TorrentFile::parseTorrentDict up to its call of parseInfoDict *)
parseTorrentDict ==
  /\ tf.pc = "torrentDict"
  /\ LET dict == tf.root.v
         t == [tf EXCEPT
                 !.announce = IF HasString(dict, KeyAnnounce) THEN MapFind(dict, KeyAnnounce).v ELSE @,
                 !.creationDate =
                   IF HasInt(dict, KeyCreationDate) THEN MapFind(dict, KeyCreationDate).v ELSE @,
                 !.createdBy =
                   IF HasString(dict, KeyCreatedBy) THEN MapFind(dict, KeyCreatedBy).v ELSE @]
     IN IF ~HasDict(dict, KeyInfo)
        THEN TorrentStep(TorrentThrow(t, "Invalid torrent file: missing or invalid info dictionary"))
        ELSE TorrentStep([t EXCEPT !.pc = "infoDict"])

(* TorrentFile::parseInfoDict up to its call of parseFilesList *)
parseInfoDict ==
  /\ tf.pc = "infoDict"
  /\ LET infoDict == MapFind(tf.root.v, KeyInfo).v
     IN IF ~HasInt(infoDict, KeyPieceLength)
        THEN TorrentStep(TorrentThrow(tf, "Invalid torrent file: missing piece length"))
        ELSE
          LET t1 == [tf EXCEPT !.pieceLength = MapFind(infoDict, KeyPieceLength).v]
          IN IF ~HasString(infoDict, KeyPieces)
             THEN TorrentStep(TorrentThrow(t1, "Invalid torrent file: missing pieces"))
             ELSE
               LET t2 == [t1 EXCEPT
                            !.pieces = SplitLoop(MapFind(infoDict, KeyPieces).v, 0, @),
                            !.name = IF HasString(infoDict, KeyName)
                                     THEN MapFind(infoDict, KeyName).v ELSE @]
               IN IF HasInt(infoDict, KeyLength)
                  THEN TorrentStep([t2 EXCEPT
                         !.singleFile = TRUE,
                         !.totalSize = MapFind(infoDict, KeyLength).v,
                         !.files = push_back(@, FileInfo(t2.name, MapFind(infoDict, KeyLength).v)),
                         !.pc = "done"])
                  ELSE IF HasList(infoDict, KeyFiles)
                  THEN TorrentStep([t2 EXCEPT
                         !.singleFile = FALSE,
                         !.todo = MapFind(infoDict, KeyFiles).v,
                         !.pc = "files"])
                  ELSE TorrentStep(TorrentThrow(t2, "Invalid torrent file: missing length or files"))

(* what one file entry adds: nothing, or one FileInfo *)
FileEntry(filePtr) ==
  IF ~isDict(filePtr) THEN <<>>
  ELSE IF ~HasInt(filePtr.v, KeyLength) THEN <<>>
  ELSE IF ~HasList(filePtr.v, KeyPath) THEN <<>>
  ELSE <<FileInfo(PathLoop(MapFind(filePtr.v, KeyPath).v, 0, <<>>), MapFind(filePtr.v, KeyLength).v)>>

(* TorrentFile::parseFilesList: one iteration of the loop over the entries *)
parseFilesEntry ==
  /\ tf.pc = "files"
  /\ tf.todo # <<>>
  /\ LET e == FileEntry(Head(tf.todo))
     IN IF e = <<>>
        THEN TorrentStep([tf EXCEPT !.todo = Tail(@)])
        ELSE TorrentStep([tf EXCEPT !.todo = Tail(@),
                                    !.files = push_back(@, e[1]),
                                    !.totalSize = WrapInt(@ + e[1].length)])

(* TorrentFile::parseFilesList returns, and with it the constructor *)
parseFilesDone ==
  /\ tf.pc = "files"
  /\ tf.todo = <<>>
  /\ TorrentStep([tf EXCEPT !.pc = "done"])

NextTorrent ==
  \/ TorrentFileCtor
  \/ parseTorrentDict
  \/ parseInfoDict
  \/ parseFilesEntry
  \/ parseFilesDone

(* ---------------------------------------------------------------------- *)
(* Decoded roots the constructor is run on.                               *)
MaxPieces == 41

MaxPath == 3

MaxFiles == 2

OptPair(k, vals) == {<<>>} \cup {<<[key |-> k, val |-> v]>> : v \in vals}

(* a dictionary as the decoder builds it: one insertion per pair *)
RECURSIVE MkMap(_)
MkMap(ps) ==
  IF ps = <<>> THEN <<>>
  ELSE MapInsert(MkMap(SubSeq(ps, 1, Len(ps) - 1)), ps[Len(ps)].key, ps[Len(ps)].val).map

MkDict(ps) == DictValue(MkMap(ps))

Pair(k, v) == <<[key |-> k, val |-> v]>>

SomeString == StringValue(<<116, 114>>)

SomeName == StringValue(<<110>>)

(* n bytes whose values tell their positions apart *)
PieceStr(n) == [i \in 1 .. n |-> i % 7]

CompA == StringValue(<<97>>)

CompB == StringValue(<<98, 99>>)

PathElems == {CompA, CompB, IntValue(0)}

PathLists == SeqsUpTo(PathElems, MaxPath)

GoodEntry(len, pathList) == MkDict(Pair(KeyLength, IntValue(len)) \o Pair(KeyPath, ListValue(pathList)))

BadEntries ==
  { IntValue(7),
    MkDict(Pair(KeyPath, ListValue(<<CompA>>))),
    MkDict(Pair(KeyLength, SomeString) \o Pair(KeyPath, ListValue(<<CompA>>))),
    MkDict(Pair(KeyLength, IntValue(9))),
    MkDict(Pair(KeyLength, IntValue(9)) \o Pair(KeyPath, CompA)) }

SumEntries ==
  BadEntries \cup {GoodEntry(len, pl) : len \in {1, 3, IntMax}, pl \in {<<CompA>>, <<CompA, CompB>>}}

InfoWith(piecesStr, rest) ==
  MkDict(Pair(KeyPieceLength, IntValue(4)) \o Pair(KeyPieces, StringValue(piecesStr))
         \o Pair(KeyName, SomeName) \o rest)

RootWith(info) == MkDict(Pair(KeyAnnounce, SomeString) \o Pair(KeyInfo, info))

(* every combination of present, absent and wrongly typed fields *)
FieldInfos ==
  { MkDict(pl \o ps \o nm \o ln \o fl) :
      pl \in OptPair(KeyPieceLength, {IntValue(4), SomeString}),
      ps \in OptPair(KeyPieces, {StringValue(PieceStr(HashLen)), IntValue(0)}),
      nm \in OptPair(KeyName, {SomeName, IntValue(3)}),
      ln \in OptPair(KeyLength, {IntValue(10), SomeString}),
      fl \in OptPair(KeyFiles, {IntValue(0), ListValue(<<GoodEntry(6, <<CompA>>)>>)}) }

FieldRoots ==
  { MkDict(a \o cd \o cb \o inf) :
      a \in OptPair(KeyAnnounce, {SomeString, IntValue(1)}),
      cd \in OptPair(KeyCreationDate, {IntValue(5), SomeString}),
      cb \in OptPair(KeyCreatedBy, {SomeName, IntValue(2)}),
      inf \in OptPair(KeyInfo, {SomeString} \cup FieldInfos) }

NonDictRoots == {IntValue(1), SomeString, ListValue(<<>>)}

PiecesRoots ==
  {RootWith(InfoWith(PieceStr(n), Pair(KeyLength, IntValue(10)))) : n \in 0 .. MaxPieces}

PathRoots ==
  {RootWith(InfoWith(<<>>, Pair(KeyFiles, ListValue(<<GoodEntry(2, pl)>>)))) : pl \in PathLists}

FilesRoots ==
  {RootWith(InfoWith(<<>>, Pair(KeyFiles, ListValue(fs)))) : fs \in SeqsUpTo(SumEntries, MaxFiles)}

Roots == NonDictRoots \cup FieldRoots \cup PiecesRoots \cup PathRoots \cup FilesRoots

InitTorrent ==
  /\ InitCalls(<<>>)
  /\ \E r \in Roots : tf = [NoTorrent EXCEPT !.pc = "start", !.root = r]

SpecTorrent == InitTorrent /\ [][NextTorrent]_vars

TorrentDone == tf.pc = "done"

TorrentFailed == tf.pc = "failed"

(* ---------------------------------------------------------------------- *)
(* What a root holds, read off the value itself.                          *)
FieldIs(d, k, ty) == \E i \in 1 .. Len(d) : d[i].key = k /\ d[i].val.type = ty

FieldVal(d, k) == d[CHOOSE i \in 1 .. Len(d) : d[i].key = k].val.v

HasInfo(r) == r.type = "dict" /\ FieldIs(r.v, KeyInfo, "dict")

InfoOf(r) == FieldVal(r.v, KeyInfo)

SingleFileRoot(r) ==
  /\ HasInfo(r)
  /\ FieldIs(InfoOf(r), KeyPieceLength, "int")
  /\ FieldIs(InfoOf(r), KeyPieces, "str")
  /\ FieldIs(InfoOf(r), KeyName, "str")
  /\ FieldIs(InfoOf(r), KeyLength, "int")

(* C11: a root whose info dictionary has an integer piece length, a string *)
(* pieces, a string name X and an integer length N is read without failure *)
(* and never as a multi-file torrent; once read, single-file is true, the  *)
(* total size is N, the piece length is the field's value, the file list   *)
(* is the one entry (X, N), and announce is the root's announce string.    *)
C11_SingleFile ==
  SingleFileRoot(tf.root) =>
    /\ tf.pc \in {"start", "torrentDict", "infoDict", "done"}
    /\ tf.pc = "done" =>
         /\ tf.singleFile = TRUE
         /\ tf.totalSize = FieldVal(InfoOf(tf.root), KeyLength)
         /\ tf.pieceLength = FieldVal(InfoOf(tf.root), KeyPieceLength)
         /\ tf.files = <<[path |-> FieldVal(InfoOf(tf.root), KeyName),
                          length |-> FieldVal(InfoOf(tf.root), KeyLength)]>>
         /\ FieldIs(tf.root.v, KeyAnnounce, "str") => tf.announce = FieldVal(tf.root.v, KeyAnnounce)

(* a single-file root that also carries a files list and an announce URL, read to the end *)
C11_Witness ==
  /\ tf.pc = "done"
  /\ SingleFileRoot(tf.root)
  /\ FieldIs(InfoOf(tf.root), KeyFiles, "list")
  /\ FieldIs(tf.root.v, KeyAnnounce, "str")
  /\ tf.files = <<[path |-> <<110>>, length |-> 10]>>

(* the roots the constructor has to reject *)
BadRoot(r) ==
  \/ r.type # "dict"
  \/ ~FieldIs(r.v, KeyInfo, "dict")
  \/ ~FieldIs(InfoOf(r), KeyPieceLength, "int")
  \/ ~FieldIs(InfoOf(r), KeyPieces, "str")
  \/ ~FieldIs(InfoOf(r), KeyLength, "int") /\ ~FieldIs(InfoOf(r), KeyFiles, "list")

(* the value an optional field ends with: the field's, or the default *)
Optional(d, k, ty, default) == IF FieldIs(d, k, ty) THEN FieldVal(d, k) ELSE default

RECURSIVE Concat(_)
Concat(ss) == IF ss = <<>> THEN <<>> ELSE Head(ss) \o Concat(Tail(ss))

(* C13: after a read that ended well, every piece hash is exactly 20 bytes *)
(* long and the hashes, concatenated in order, give back the pieces        *)
(* string, whatever its length.                                            *)
C13_Hashes20 ==
  tf.pc = "done" =>
    /\ \A i \in 1 .. Len(tf.pieces) : Len(tf.pieces[i]) = 20
    /\ Concat(tf.pieces) = FieldVal(InfoOf(tf.root), KeyPieces)

(* the string components of a path list, in order *)
StringsOf(pl) == [i \in 1 .. Len(SelectSeq(pl, LAMBDA e : e.type = "str")) |->
                    SelectSeq(pl, LAMBDA e : e.type = "str")[i].v]

RECURSIVE Join(_)
Join(ss) ==
  IF ss = <<>> THEN <<>>
  ELSE IF Len(ss) = 1 THEN ss[1]
  ELSE ss[1] \o <<47>> \o Join(Tail(ss))

(* the files elements that yield an entry *)
ValidElems(fs) ==
  SelectSeq(fs, LAMBDA e : /\ e.type = "dict"
                           /\ FieldIs(e.v, KeyLength, "int")
                           /\ FieldIs(e.v, KeyPath, "list"))

MultiFileRead ==
  /\ tf.pc = "done"
  /\ ~FieldIs(InfoOf(tf.root), KeyLength, "int")

(* C14: in a multi-file torrent each entry's path is the string components *)
(* of its path list joined with '/', the separator standing only between   *)
(* two joined components and never first or last, for every path list,     *)
(* those with non-string elements included.                                *)
C14_PathJoined ==
  MultiFileRead =>
    LET elems == ValidElems(FieldVal(InfoOf(tf.root), KeyFiles))
    IN /\ Len(tf.files) = Len(elems)
       /\ \A i \in 1 .. Len(elems) :
            tf.files[i].path = Join(StringsOf(FieldVal(elems[i].v, KeyPath)))

(* ====================================================================== *)
(* The decoder's cursor and dispatch (src/src/bencode.cpp).               *)

(* C15: within one decode the cursor never moves backward, and a          *)
(* sub-parser that succeeds from the start offset s leaves the cursor     *)
(* strictly after s and no further than the end of the input.             *)
C15_CursorForward ==
  [][\A c \in Calls :
       /\ pos'[c] >= pos[c]
       /\ (pc[c] = "value" /\ work'[c] # work[c] /\ outcome'[c] \in {"running", "value"}) =>
            (pos'[c] > pos[c] /\ pos'[c] <= Len(input[c]))]_vars

(* the cursor of call c is at the end of the input or at a byte that starts no value *)
BadValueLead(c) ==
  \/ pos[c] >= Len(input[c])
  \/ input[c][pos[c] + 1] \notin Digits \cup {ChI, ChL, ChD}

(* the cursor of call c is at a byte that neither closes a dictionary nor starts a key *)
BadKeyLead(c) ==
  /\ pos[c] < Len(input[c])
  /\ input[c][pos[c] + 1] \notin Digits \cup {ChE}

(* call c takes a step *)
Steps(c) == pc'[c] # pc[c] \/ pos'[c] # pos[c] \/ work'[c] # work[c] \/ stack'[c] # stack[c]

(* C16: while the process has memory and stack left, a decode that stands  *)
(* at a value position with the cursor at or past the end of the input, or *)
(* at a byte that is not a digit, 'i', 'l' or 'd', fails there with the    *)
(* malformed-input error; one that stands at a dictionary key position at  *)
(* a byte that is neither 'e' nor a digit fails there with the "key must   *)
(* be a string" error, before any key or value is parsed.                  *)
C16_LeadByte ==
  [][\A c \in Calls :
       /\ (pc[c] = "value" /\ work[c] < MaxWork /\ BadValueLead(c) /\ Steps(c)) =>
            /\ pc'[c] = "done" /\ outcome'[c] = "error" /\ pos'[c] = pos[c]
            /\ err'[c] = IF pos[c] >= Len(input[c]) THEN "Unexpected end of input"
                         ELSE "Invalid value type"
       /\ (pc[c] = "dict" /\ BadKeyLead(c) /\ Steps(c)) =>
            /\ pc'[c] = "done" /\ outcome'[c] = "error" /\ pos'[c] = pos[c]
            /\ err'[c] = "Invalid dictionary key: must be string"]_vars

(* a decode that failed at a key position after one pair had been read *)
C16_Witness ==
  \E c \in Calls :
    /\ pc[c] = "done" /\ outcome[c] = "error"
    /\ err[c] = "Invalid dictionary key: must be string"
    /\ pos[c] > 1
    /\ BadKeyLead(c)

(* the digits of an integer token *)
IntDigits(i) == SubSeq(i, IntStart(i) + 1, IntStart(i) + DigitRun(i, IntStart(i)))

(* the number an integer token writes, as a mathematical integer *)
WrittenInt(i) == IF IntStart(i) = 2 THEN 0 - Written(IntDigits(i)) ELSE Written(IntDigits(i))

(* C17: an integer token that decodes gives the base-10 value of its       *)
(* digits, negated after a minus sign, however many digits there are: a    *)
(* number that does not fit the integer width is never decoded to a        *)
(* different value.                                                        *)
C17_WrittenValue ==
  \A c \in Calls :
    (Decoded(c) /\ input[c][1] = ChI) =>
      (result[c].type = "int" /\ result[c].v = WrittenInt(input[c]))

(* the sum of the lengths of a file list, as a mathematical integer *)
RECURSIVE SumLengths(_)
SumLengths(fs) == IF fs = <<>> THEN 0 ELSE Head(fs).length + SumLengths(Tail(fs))

(* C18: after a read that ended well, single-file or multi-file, the total *)
(* size is the sum of the lengths of the entries of the file list; in a    *)
(* multi-file torrent the files elements that are not a dictionary, have   *)
(* no integer length or have no list path add no entry and nothing to the  *)
(* total, and the other elements are the entries, in source order.         *)
C18_TotalIsSum ==
  tf.pc = "done" =>
    /\ tf.totalSize = SumLengths(tf.files)
    /\ MultiFileRead =>
         LET elems == ValidElems(FieldVal(InfoOf(tf.root), KeyFiles))
         IN /\ Len(tf.files) = Len(elems)
            /\ \A i \in 1 .. Len(elems) : tf.files[i].length = FieldVal(elems[i].v, KeyLength)

====
